---- MODULE Spec2Model ----
(***************************************************************************)
(* Model of plugins/modules/install.py (Ansible module macos_pkg): one run *)
(* of main() against a machine with a package registry, an HTTP server, a  *)
(* disk-image service and an installer.                                    *)
(*                                                                         *)
(* Strings that the code takes apart (paths, URLs, file names) are         *)
(* sequences of lexemes: a word, "." or "/" ("https://" is one lexeme), so *)
(* rfind, endswith and slicing act on them as they do on the characters.   *)
(* A version string is the sequence of its dot-separated fields: a field   *)
(* n >= 0 is the number n, Alpha is a non-numeric field, WS is white space.*)
(***************************************************************************)
EXTENDS Integers, Sequences, FiniteSets, TLC

\* Largest numeric field of a version string.
MaxVerNum == 1

VerLens == {1, 2}

None == <<>>
NoneStr == "<None>"

Alpha == 0 - 1
WS == 0 - 2

Range(s) == {s[i] : i \in 1..Len(s)}

SeqsOf(S, lens) == UNION {[1..n -> S] : n \in lens}

\* Well-formed version strings, e.g. <<1, 0>> is "1.0".
Versions == SeqsOf(0..MaxVerNum, VerLens)

\* A version string that is no PEP 440 version, e.g. "x".
BadVersion == <<Alpha>>

(***************************************************************************)
(* Sources                                                                 *)
(***************************************************************************)
LocalPkg == <<"/", "local", "/", "App", ".", "pkg">>
LocalDmg == <<"/", "local", "/", "App", ".", "dmg">>
LocalNoExt == <<"/", "local", "/", "App">>
LocalZip == <<"/", "local", "/", "App", ".", "zip">>
RemotePkg == <<"https://", "host", "/", "App", ".", "pkg">>
RemoteDmg == <<"https://", "host", "/", "App", ".", "dmg">>
RemoteNoExt == <<"https://", "host", ".", "com", "/", "App">>
RemoteZip == <<"https://", "host", ".", "com", "/", "App", ".", "zip">>
RemoteNoDot == <<"https://", "host", "/", "App">>

Sources ==
    {LocalPkg, LocalDmg, LocalNoExt, LocalZip,
     RemotePkg, RemoteDmg, RemoteNoExt, RemoteZip, RemoteNoDot}

Schemes == {"http://", "https://"}
LowerWords == {"host", "com", "pkg", "dmg", "zip", "local", "tmp"}
MixedWords == {"App", "Volumes", "Other", "sub", "A", "B", "readme", "txt"}

\* Number of characters of a lexeme.
TokLen(t) ==
    CASE t \in {".", "/", "A", "B"} -> 1
      [] t \in {"com", "pkg", "dmg", "zip", "tmp", "App", "sub", "txt"} -> 3
      [] t = "host" -> 4
      [] t \in {"local", "Other"} -> 5
      [] t = "readme" -> 6
      [] t \in {"http://", "Volumes"} -> 7
      [] t = "https://" -> 8

RECURSIVE CharLen(_)
CharLen(s) == IF s = <<>> THEN 0 ELSE TokLen(Head(s)) + CharLen(Tail(s))

\* Lexemes made only of characters of the class [-a-zA-Z0-9@:%._\+~#?&//=].
UrlClass == LowerWords \cup MixedWords \cup {".", "/"}

\* str.rfind: the index of the last occurrence, 0 (Python: -1) when absent.
rfind(s, t) ==
    IF \E i \in 1..Len(s) : s[i] = t
    THEN CHOOSE i \in 1..Len(s) : s[i] = t /\ \A j \in (i + 1)..Len(s) : s[j] # t
    ELSE 0

endswith(s, suffix) ==
    /\ Len(s) >= Len(suffix)
    /\ SubSeq(s, Len(s) - Len(suffix) + 1, Len(s)) = suffix

PkgSuffix == <<".", "pkg">>
DmgSuffix == <<".", "dmg">>

\* re.match of the URL pattern of main():
\* ^((http|https)://)[class]{2,256}\.[a-z]{2,6}\b([class]*)$
IsUrl(source) ==
    /\ Len(source) >= 1
    /\ source[1] \in Schemes
    /\ \A i \in 2..Len(source) : source[i] \in UrlClass
    /\ \E i \in 2..(Len(source) - 1) :
          /\ source[i] = "."
          /\ CharLen(SubSeq(source, 2, i - 1)) \in 2..256
          /\ source[i + 1] \in LowerWords
          /\ TokLen(source[i + 1]) \in 2..6

\* _validate_ext: the text from the last "." on.
Suffix(path) == SubSeq(path, rfind(path, "."), Len(path))

\* _validate_ext calls fail_json: no "." at all, or an unrecognized suffix.
ValidateExtFails(path) ==
    \/ rfind(path, ".") = 0
    \/ Suffix(path) \notin {PkgSuffix, DmgSuffix}

_validate_ext(path) == Suffix(path)

_is_dmg(path) == endswith(path, DmgSuffix)

\* tempfile.mktemp(): a name no existing file has; no file is created.
mktemp(files) ==
    IF \E f \in files : SubSeq(f, 1, 4) = <<"/", "tmp", "/", "tmp">>
    THEN <<"/", "tmp", "/", "tmpB">>
    ELSE <<"/", "tmp", "/", "tmp">>

\* HTTP statuses the server can answer with.
Statuses == {200, 404, 500}

FetchFailed_ServerErrorsOnly(status) == status >= 500

\* main(), line 249: anything but 200 fails the module.
FetchFailed(status) == status # 200

IsContainer_ExtensionOnly(type, path) == _is_dmg(path)

\* The test of main() for "handed a DMG" (used before unwrapping and in cleanup).
IsContainer(type, path) == type = "dmg" \/ _is_dmg(path)

(***************************************************************************)
(* Versions: packaging.version.parse and its ordering                      *)
(***************************************************************************)
RECURSIVE LStrip(_)
LStrip(v) == IF v # <<>> /\ Head(v) = WS THEN LStrip(Tail(v)) ELSE v

RECURSIVE RStrip(_)
RStrip(v) ==
    IF v # <<>> /\ v[Len(v)] = WS THEN RStrip(SubSeq(v, 1, Len(v) - 1)) ELSE v

\* re.sub(r'\s', '', ver) of get_metadata.
StripWhitespace(v) == SelectSeq(v, LAMBDA c : c # WS)

\* The version pattern allows white space around the version only.
IsPep440(v) ==
    LET t == LStrip(RStrip(v))
    IN  t # <<>> /\ \A i \in 1..Len(t) : t[i] >= 0

RECURSIVE DropTrailingZeros(_)
DropTrailingZeros(r) ==
    IF r # <<>> /\ r[Len(r)] = 0
    THEN DropTrailingZeros(SubSeq(r, 1, Len(r) - 1))
    ELSE r

\* The comparison key of a Version: its release without trailing zeros.
Release(v) == DropTrailingZeros(LStrip(RStrip(v)))

\* Python's ordering of tuples.
TupleLE(a, b) ==
    \/ Len(a) <= Len(b) /\ SubSeq(b, 1, Len(a)) = a
    \/ \E i \in 1..Len(a) :
          /\ i <= Len(b)
          /\ SubSeq(a, 1, i - 1) = SubSeq(b, 1, i - 1)
          /\ a[i] < b[i]

\* parse_version raises InvalidVersion where the packaging library has no
\* LegacyVersion (22 and later); older ones return a LegacyVersion.
ParseRaises(v, legacy) == ~legacy /\ ~IsPep440(v)

\* parse_version(a) >= parse_version(b), where neither raises. A
\* LegacyVersion sorts before every Version.
VersionGE(a, b) ==
    CASE IsPep440(a) /\ IsPep440(b) -> TupleLE(Release(b), Release(a))
      [] IsPep440(a) /\ ~IsPep440(b) -> TRUE
      [] ~IsPep440(a) /\ IsPep440(b) -> FALSE
      [] OTHER -> TupleLE(b, a)

(***************************************************************************)
(* The decisions of install() and main()                                   *)
(***************************************************************************)
_is_installed_AnyPackage(id, packages) == packages # <<"">>

\* _is_installed: membership in the list of lines.
_is_installed(id, packages) == id \in Range(packages)

SkipUpgrade_UnlessForce(p) == p.upgrade = FALSE /\ ~p.force

\* "Skip if the user does not want to attempt upgrades": return 2.
SkipUpgrade(p) == p.upgrade = FALSE

AlreadySatisfied_Strict(installed, declared, force) ==
    VersionGE(installed, declared) /\ ~VersionGE(declared, installed) /\ ~force

AlreadySatisfied_IgnoreForce(installed, declared, force) ==
    VersionGE(installed, declared)

AlreadySatisfied_Always(installed, declared, force) == ~force

\* The test before "return 1".
AlreadySatisfied(installed, declared, force) ==
    VersionGE(installed, declared) /\ ~force

Changed_NotOne(install_result) == install_result # 1

\* main(): result['changed'] = True iff install() returned 0.
Changed(install_result) == install_result = 0

(***************************************************************************)
(* The machine: registry, image service, package contents                  *)
(***************************************************************************)
PidLine == [key |-> "package-id", val |-> None]
VersionLine(v) == [key |-> "version", val |-> v]

\* Outputs of `pkgutil --pkg-info ID`, line by line; the first has no
\* "version: " line.
InfoOutputs ==
    {<<PidLine>>} \cup {<<PidLine, VersionLine(v)>> : v \in Versions \cup {BadVersion}}

\* re.search(r'version: (.*)', out): the first such line, None without one.
re_search_version(out) ==
    IF \E i \in 1..Len(out) : out[i].key = "version"
    THEN out[CHOOSE i \in 1..Len(out) :
                /\ out[i].key = "version"
                /\ \A j \in 1..(i - 1) : out[j].key # "version"]
    ELSE PidLine

OtherPackages == "com.b" :> <<PidLine, VersionLine(<<1>>)>>

Registries ==
    {OtherPackages} \cup {("com.a" :> out) @@ OtherPackages : out \in InfoOutputs}

RECURSIVE SetToSeq(_)
SetToSeq(S) ==
    IF S = {} THEN <<>>
    ELSE LET x == CHOOSE x \in S : TRUE IN <<x>> \o SetToSeq(S \ {x})

\* stdout of `pkgutil --pkgs`: one identity per line, each line ended by "\n".
PkgsLines(reg) == SetToSeq(DOMAIN reg)

\* stdout.split('\n') of text whose every line ends with "\n": a last, empty
\* string follows the lines.
SplitLines(lines) == lines \o <<"">>

MountA == <<"/", "Volumes", "/", "App">>
MountOther == <<"/", "Volumes", "/", "Other">>

Image(p, entities) == [image_path |-> p, system_entities |-> entities]

OtherImage ==
    Image(<<"/", "local", "/", "Other", ".", "dmg">>, <<[mount_point |-> MountOther]>>)

\* What `hdiutil info -plist` can list after `hdiutil attach path`.
Listings(p) ==
    {<<>>,
     <<OtherImage>>,
     <<Image(p, <<[mount_point |-> None]>>)>>,
     <<Image(p, <<[mount_point |-> MountA]>>), OtherImage>>,
     <<OtherImage, Image(p, <<[mount_point |-> None], [mount_point |-> MountA]>>)>>}

\* The loops of main() over plist['images'] and image['system-entities'].
FindMountPoint(listing, p) ==
    IF \E i \in 1..Len(listing) : listing[i].image_path = p
    THEN LET i == CHOOSE i \in 1..Len(listing) :
                     /\ listing[i].image_path = p
                     /\ \A j \in 1..(i - 1) : listing[j].image_path # p
             se == listing[i].system_entities
         IN  IF \E k \in 1..Len(se) : se[k].mount_point # None
             THEN se[CHOOSE k \in 1..Len(se) :
                        /\ se[k].mount_point # None
                        /\ \A j \in 1..(k - 1) : se[j].mount_point = None].mount_point
             ELSE None
    ELSE None

FileA == <<"A", ".", "pkg">>
FileB == <<"B", ".", "pkg">>
Readme == <<"readme", ".", "txt">>

join(base, file) == base \o <<"/">> \o file

Dir(base, files) == [base |-> base, files |-> files]

\* What os.walk(mp) can yield: the directories in walk order, with their files.
Trees(mp) ==
    {<<Dir(mp, <<Readme>>)>>,
     <<Dir(mp, <<Readme, FileA, FileB>>)>>,
     <<Dir(mp, <<FileA>>), Dir(join(mp, <<"sub">>), <<FileB>>)>>,
     <<Dir(mp, <<FileA>>), Dir(join(mp, <<"sub">>), <<Readme>>)>>}

\* The inner loop: the first file ending in .pkg stops it.
FirstPkg(files) ==
    IF \E i \in 1..Len(files) : endswith(files[i], PkgSuffix)
    THEN files[CHOOSE i \in 1..Len(files) :
                  /\ endswith(files[i], PkgSuffix)
                  /\ \A j \in 1..(i - 1) : ~endswith(files[j], PkgSuffix)]
    ELSE None

\* The outer loop runs over every directory: the inner break does not leave it.
RECURSIVE WalkPkg(_, _)
WalkPkg(tree, found) ==
    IF tree = <<>> THEN found
    ELSE WalkPkg(Tail(tree),
                 IF FirstPkg(Head(tree).files) # None
                 THEN join(Head(tree).base, FirstPkg(Head(tree).files))
                 ELSE found)

\* The PackageInfo document that tar and the XML parser yield for a package.
PackageInfo(found, bundle, ver, hasId, id) ==
    [found |-> found, bundle |-> bundle, CFBundleVersion |-> ver,
     hasIdentifier |-> hasId, identifier |-> id]

PackageIds == {"com.a", "com.b", ""}

RawVersions == Versions \cup {BadVersion, <<1, WS>>}

PackageInfos ==
    {PackageInfo(FALSE, FALSE, None, FALSE, ""),
     PackageInfo(TRUE, FALSE, None, TRUE, "com.a"),
     PackageInfo(TRUE, TRUE, None, TRUE, "com.a"),
     PackageInfo(TRUE, TRUE, <<1>>, FALSE, "")}
    \cup {PackageInfo(TRUE, TRUE, v, TRUE, id) : v \in RawVersions, id \in PackageIds}

(***************************************************************************)
(* State                                                                   *)
(***************************************************************************)
VARIABLES
    params,          \* module.params
    registry,        \* the machine's package registry: identity -> pkg-info output
    pc,              \* where main() stands
    url,             \* main(): the source matched the URL pattern
    path,            \* main(): the local file
    tempFiles,       \* downloaded files that exist on disk
    attached,        \* containers the image service holds attached
    mount_point,     \* main(): mount point found for the container
    pkg_path,        \* main(): the package to install
    metadata,        \* get_metadata(): {version, id}
    packages,        \* _is_installed(): the lines of `pkgutil --pkgs`
    installed_ver,   \* install(): the version read from the registry
    install_result,  \* main(): what install() returned
    installer_rc,    \* install(): result[0] of the installer command
    result,          \* main(): the result dict
    cmds,            \* the external commands and fetches issued, in order
    outcome,         \* how the process ended and what it reported
    check_mode,      \* module.check_mode
    info_status,     \* main(): info['status'] of fetch_url
    plist,           \* main(): plist['images'] of `hdiutil info -plist`
    tree,            \* main(): what os.walk(mount_point) yielded
    detach_arg,      \* the mount point named by `hdiutil detach`
    run,             \* which run of the request this is
    prev_metadata,   \* the metadata of the run before this one
    machine0         \* the registry as this run found it

vars ==
    <<params, registry, pc, url, path, tempFiles, attached, mount_point, pkg_path,
      metadata, packages, installed_ver, install_result, installer_rc, result, cmds,
      outcome, check_mode, info_status, plist, tree, detach_arg, run, prev_metadata,
      machine0>>

\* What no step of a run changes.
session == <<check_mode, run, prev_metadata, machine0>>

Unset == 0 - 1

Overrides ==
    {[id |-> NoneStr, ver |-> None]}
    \cup {[id |-> "com.a", ver |-> v] : v \in Versions \cup {BadVersion}}
    \cup {[id |-> "", ver |-> <<1>>]}

\* The argument_spec of main(): type has choices pkg and dmg, force defaults
\* to False and upgrade to True, id and ver are required together.
Params ==
    {[source |-> s, type |-> t, force |-> f, upgrade |-> u, id |-> o.id, ver |-> o.ver] :
        s \in Sources, t \in {NoneStr, "pkg", "dmg"}, f \in BOOLEAN, u \in BOOLEAN,
        o \in Overrides}

Truthy_IsNone(s) == s = NoneStr

\* Python's truth value of an optional string.
Truthy(s) == s \notin {NoneStr, ""}

Running == [exit |-> "running", failed |-> FALSE, err |-> "", changed |-> "absent", msg |-> ""]

\* module.fail_json(msg = ...): reports failed=True and exits with status 1.
fail_json(err, msg) ==
    [exit |-> "fail_json", failed |-> TRUE, err |-> err, changed |-> "absent", msg |-> msg]

\* module.exit_json(**kwargs): reports the keys given and exits with status 0.
exit_json(changed, msg) ==
    [exit |-> "exit_json", failed |-> FALSE, err |-> "", changed |-> changed, msg |-> msg]

\* An exception that nothing catches ends the process with a traceback.
exception(type) ==
    [exit |-> "exception", failed |-> TRUE, err |-> type, changed |-> "absent", msg |-> "traceback"]

Terminate(o) == pc' = "done" /\ outcome' = o

\* The state main() starts from, in check mode or not.
Constructed(check) ==
    /\ check_mode = check
    /\ params \in Params
    /\ registry \in Registries
    /\ pc = "start"
    /\ url = FALSE
    /\ path = None
    /\ tempFiles = {}
    /\ attached = {}
    /\ mount_point = None
    /\ pkg_path = None
    /\ metadata = [version |-> None, id |-> NoneStr]
    /\ packages = <<>>
    /\ installed_ver = None
    /\ install_result = Unset
    /\ installer_rc = Unset
    /\ result = [changed |-> FALSE]
    /\ cmds = <<>>
    /\ outcome = Running
    /\ info_status = Unset
    /\ plist = <<>>
    /\ tree = <<>>
    /\ detach_arg = None
    /\ run = 1
    /\ prev_metadata = [version |-> None, id |-> NoneStr]
    /\ machine0 = registry

Init == Constructed(FALSE)

InitCheckMode == Constructed(TRUE)

(***************************************************************************)
(* main(), lines 238-255: classify the source and fetch a remote one       *)
(***************************************************************************)
SourceResolver ==
    /\ pc = "start"
    /\ url' = IsUrl(params.source)
    /\ IF url'
       THEN IF ValidateExtFails(params.source)
            THEN /\ Terminate(fail_json("UnresolvableType", "validate_ext"))
                 /\ UNCHANGED <<path, tempFiles, cmds, info_status>>
            ELSE /\ cmds' = Append(cmds, "fetch_url")
                 /\ path' = mktemp(tempFiles) \o _validate_ext(params.source)
                 /\ \E status \in Statuses :
                       /\ info_status' = status
                       /\ IF FetchFailed(status)
                          THEN /\ Terminate(fail_json("FetchError", "info.msg"))
                               /\ UNCHANGED tempFiles
                          ELSE /\ tempFiles' = tempFiles \cup {path'}
                               /\ pc' = "unwrap"
                               /\ UNCHANGED outcome
       ELSE /\ path' = params.source
            /\ pc' = "unwrap"
            /\ UNCHANGED <<tempFiles, cmds, outcome, info_status>>
    /\ UNCHANGED <<params, registry, attached, mount_point, pkg_path, metadata, packages,
                   installed_ver, install_result, installer_rc, result, plist, tree,
                   detach_arg, session>>

(***************************************************************************)
(* main(), lines 257-284: mount a container and pick the package in it     *)
(***************************************************************************)
ContainerUnwrapper ==
    /\ pc = "unwrap"
    /\ IF IsContainer(params.type, path)
       THEN /\ cmds' = cmds \o <<"hdiutil attach", "hdiutil info">>
            /\ \E listing \in Listings(path) :
                  /\ attached' =
                        IF \E i \in 1..Len(listing) : listing[i].image_path = path
                        THEN attached \cup {path}
                        ELSE attached
                  /\ plist' = listing
                  /\ mount_point' = FindMountPoint(listing, path)
                  /\ IF mount_point' = None
                     THEN \* os.walk(None) raises TypeError
                          /\ Terminate(exception("TypeError"))
                          /\ UNCHANGED <<pkg_path, tree>>
                     ELSE \E walked \in Trees(mount_point') :
                             /\ tree' = walked
                             /\ pkg_path' = WalkPkg(walked, None)
                             /\ IF pkg_path' = None
                                THEN Terminate(fail_json("NoPackageFound", "no_pkg"))
                                ELSE pc' = "metadata" /\ UNCHANGED outcome
       ELSE /\ pkg_path' = path
            /\ pc' = "metadata"
            /\ UNCHANGED <<attached, mount_point, cmds, outcome, plist, tree>>
    /\ UNCHANGED <<params, registry, url, path, tempFiles, metadata, packages,
                   installed_ver, install_result, installer_rc, result, info_status,
                   detach_arg, session>>

(***************************************************************************)
(* get_metadata(), lines 141-174                                           *)
(***************************************************************************)
\* What get_metadata() makes of a complete PackageInfo document.
Extracted(info) ==
    [version |-> StripWhitespace(info.CFBundleVersion), id |-> info.identifier]

\* The documents the package at the source can hold: any in a first run; in
\* a rerun the source is unchanged, so it yields what it yielded before.
Contents(n, previous) ==
    IF n = 1
    THEN PackageInfos
    ELSE {info \in PackageInfos :
             /\ info.found /\ info.bundle /\ info.hasIdentifier
             /\ info.CFBundleVersion # None
             /\ Extracted(info) = previous}

MetadataExtractor ==
    /\ pc = "metadata"
    /\ IF Truthy(params.id)
       THEN /\ metadata' = [version |-> params.ver, id |-> params.id]
            /\ pc' = "inspect"
            /\ UNCHANGED <<cmds, outcome>>
       ELSE /\ cmds' = Append(cmds, "tar")
            /\ \E info \in Contents(run, prev_metadata) :
                  CASE ~info.found ->
                          /\ Terminate(fail_json("MissingPackageInfo", "no_properties"))
                          /\ UNCHANGED metadata
                    [] info.found /\ ~info.bundle ->
                          \* metadata.find('bundle') is None
                          /\ Terminate(exception("AttributeError"))
                          /\ UNCHANGED metadata
                    [] info.found /\ info.bundle /\ info.CFBundleVersion = None ->
                          /\ Terminate(fail_json("MissingVersion", "no_version"))
                          /\ UNCHANGED metadata
                    [] info.found /\ info.bundle /\ info.CFBundleVersion # None
                          /\ ~info.hasIdentifier ->
                          \* metadata.attrib['identifier']
                          /\ Terminate(exception("KeyError"))
                          /\ UNCHANGED metadata
                    [] OTHER ->
                          /\ metadata' = Extracted(info)
                          /\ pc' = "inspect"
                          /\ UNCHANGED outcome
    /\ UNCHANGED <<params, registry, url, path, tempFiles, attached, mount_point, pkg_path,
                   packages, installed_ver, install_result, installer_rc, result,
                   info_status, plist, tree, detach_arg, session>>

(***************************************************************************)
(* install(), lines 187-190 with _is_installed(), lines 136-139            *)
(***************************************************************************)
Inspector ==
    /\ pc = "inspect"
    /\ cmds' = Append(cmds, "pkgutil --pkgs")
    /\ \E rc \in {0, 1} :
          IF rc # 0
          THEN \* run_command(check_rc = True) fails the module
               /\ Terminate(fail_json("CommandFailed", "pkgutil.stderr"))
               /\ UNCHANGED <<packages, install_result, result>>
          ELSE /\ packages' = SplitLines(PkgsLines(registry))
               /\ IF _is_installed(metadata.id, packages')
                  THEN IF SkipUpgrade(params)
                       THEN /\ install_result' = 2
                            /\ result' = [result EXCEPT !.changed = Changed(install_result')]
                            /\ pc' = "cleanup"
                       ELSE /\ pc' = "lookup"
                            /\ UNCHANGED <<install_result, result>>
                  ELSE /\ pc' = "installer"
                       /\ UNCHANGED <<install_result, result>>
               /\ UNCHANGED outcome
    /\ UNCHANGED <<params, registry, url, path, tempFiles, attached, mount_point, pkg_path,
                   metadata, installed_ver, installer_rc, info_status, plist, tree, detach_arg, session>>

(***************************************************************************)
(* install(), lines 192-196: read the installed version and compare        *)
(***************************************************************************)
VersionLookup ==
    /\ pc = "lookup"
    /\ cmds' = Append(cmds, "pkgutil --pkg-info")
    /\ IF metadata.id \notin DOMAIN registry
       THEN \* pkgutil knows no such package: check_rc fails the module
            /\ Terminate(fail_json("CommandFailed", "pkgutil.stderr"))
            /\ UNCHANGED <<installed_ver, install_result, result>>
       ELSE LET match == re_search_version(registry[metadata.id])
            IN  IF match.key # "version"
                THEN \* re.search(...) is None: None.group(1)
                     /\ Terminate(exception("AttributeError"))
                     /\ UNCHANGED <<installed_ver, install_result, result>>
                ELSE /\ installed_ver' = match.val
                     /\ \E legacy \in BOOLEAN :
                           IF \/ ParseRaises(installed_ver', legacy)
                              \/ ParseRaises(metadata.version, legacy)
                           THEN /\ Terminate(exception("InvalidVersion"))
                                /\ UNCHANGED <<install_result, result>>
                           ELSE IF AlreadySatisfied(installed_ver', metadata.version,
                                                    params.force)
                                THEN /\ install_result' = 1
                                     /\ result' = [result EXCEPT
                                                      !.changed = Changed(install_result')]
                                     /\ pc' = "cleanup"
                                     /\ UNCHANGED outcome
                                ELSE /\ pc' = "installer"
                                     /\ UNCHANGED <<install_result, result, outcome>>
    /\ UNCHANGED <<params, registry, url, path, tempFiles, attached, mount_point, pkg_path,
                   metadata, packages, installer_rc, info_status, plist, tree, detach_arg, session>>

(***************************************************************************)
(* install(), lines 198-211: the installer command                         *)
(***************************************************************************)
\* A successful installer may record the package, at the version the request
\* declares, in the registry.
Installed(reg, md) ==
    {reg} \cup (IF md.id = "" THEN {}
                ELSE {(md.id :> <<PidLine, VersionLine(md.version)>>) @@ reg})

InstallerInvoker ==
    /\ pc = "installer"
    /\ cmds' = Append(cmds, "installer")
    /\ \E rc \in {0, 1} :
          /\ installer_rc' = rc
          /\ IF rc # 0
             THEN \* module.exit_json(msg = result[1]): result[1] is stdout
                  /\ Terminate(exit_json("absent", "installer.stdout"))
                  /\ UNCHANGED <<registry, install_result, result>>
             ELSE /\ registry' \in Installed(registry, metadata)
                  /\ install_result' = 0
                  /\ result' = [result EXCEPT !.changed = Changed(install_result')]
                  /\ pc' = "cleanup"
                  /\ UNCHANGED outcome
    /\ UNCHANGED <<params, url, path, tempFiles, attached, mount_point, pkg_path, metadata,
                   packages, installed_ver, info_status, plist, tree, detach_arg, session>>

(***************************************************************************)
(* main(), lines 292-299: detach, remove the download, report              *)
(***************************************************************************)
\* The detach placed ahead of the call of install().
CleanupDetach_BeforeInstall ==
    /\ \/ /\ pc = "inspect"
          /\ IsContainer(params.type, path)
          /\ "hdiutil detach" \notin Range(cmds)
          /\ cmds' = Append(cmds, "hdiutil detach")
          /\ detach_arg' = mount_point
          /\ attached' = attached \ {path}
          /\ pc' = pc
       \/ /\ pc = "cleanup"
          /\ pc' = "remove"
          /\ UNCHANGED <<cmds, attached, detach_arg>>
    /\ UNCHANGED <<params, registry, url, path, tempFiles, mount_point, pkg_path, metadata,
                   packages, installed_ver, install_result, installer_rc, result, outcome,
                   info_status, plist, tree, session>>

CleanupDetach ==
    /\ pc = "cleanup"
    /\ IF IsContainer(params.type, path)
       THEN /\ cmds' = Append(cmds, "hdiutil detach")
            /\ detach_arg' = mount_point
            /\ attached' = attached \ {path}
       ELSE UNCHANGED <<cmds, attached, detach_arg>>
    /\ pc' = "remove"
    /\ UNCHANGED <<params, registry, url, path, tempFiles, mount_point, pkg_path, metadata,
                   packages, installed_ver, install_result, installer_rc, result, outcome,
                   info_status, plist, tree, session>>

CleanupRemove ==
    /\ pc = "remove"
    /\ IF url
       THEN /\ cmds' = Append(cmds, "os.remove")
            /\ tempFiles' = tempFiles \ {path}
       ELSE UNCHANGED <<cmds, tempFiles>>
    /\ pc' = "report"
    /\ UNCHANGED <<params, registry, url, path, attached, mount_point, pkg_path, metadata,
                   packages, installed_ver, install_result, installer_rc, result, outcome,
                   info_status, plist, tree, detach_arg, session>>

Report ==
    /\ pc = "report"
    /\ Terminate(exit_json(IF result.changed THEN "true" ELSE "false", ""))
    /\ UNCHANGED <<params, registry, url, path, tempFiles, attached, mount_point, pkg_path,
                   metadata, packages, installed_ver, install_result, installer_rc, result,
                   cmds, info_status, plist, tree, detach_arg, session>>

Next ==
    \/ SourceResolver
    \/ ContainerUnwrapper
    \/ MetadataExtractor
    \/ Inspector
    \/ VersionLookup
    \/ InstallerInvoker
    \/ CleanupDetach
    \/ CleanupRemove
    \/ Report

Spec == Init /\ [][Next]_vars

\* The runs in check mode.
SpecCheckMode == InitCheckMode /\ [][Next]_vars

(***************************************************************************)
(* The same request, run again on a machine that the run before left with  *)
(* the package installed at the version the request declares                *)
(***************************************************************************)
InstalledAtDeclared(reg, md) ==
    /\ md.id \in DOMAIN reg
    /\ re_search_version(reg[md.id]) = VersionLine(md.version)

Rerun ==
    /\ pc = "done"
    /\ run = 1
    /\ InstalledAtDeclared(registry, metadata)
    /\ run' = run + 1
    /\ prev_metadata' = metadata
    /\ machine0' = registry
    /\ pc' = "start"
    /\ url' = FALSE
    /\ path' = None
    /\ mount_point' = None
    /\ pkg_path' = None
    /\ metadata' = [version |-> None, id |-> NoneStr]
    /\ packages' = <<>>
    /\ installed_ver' = None
    /\ install_result' = Unset
    /\ installer_rc' = Unset
    /\ result' = [changed |-> FALSE]
    /\ cmds' = <<>>
    /\ outcome' = Running
    /\ info_status' = Unset
    /\ plist' = <<>>
    /\ tree' = <<>>
    /\ detach_arg' = None
    /\ UNCHANGED <<params, registry, tempFiles, attached, check_mode>>

NextRerun == Next \/ Rerun

SpecRerun == Init /\ [][NextRerun]_vars

(***************************************************************************)
(* Vocabulary of the properties                                            *)
(***************************************************************************)
Issued(c) == c \in Range(cmds)

\* The registry query has returned.
Inspected == packages # <<>>

\* The identities the registry enumerated: the lines of its output.
ListedIds == {packages[i] : i \in 1..(Len(packages) - 1)}

IsPresent == Inspected /\ metadata.id \in ListedIds

\* The registry gave an installed version and the comparator orders it
\* against the declared one.
Comparable ==
    /\ installed_ver # None
    /\ IsPep440(installed_ver)
    /\ IsPep440(metadata.version)

\* Strictly lower, on the release fields (trailing zeros do not count).
VersionLT(a, b) == Release(a) # Release(b) /\ TupleLE(Release(a), Release(b))

Proceeded == pc = "installer" \/ Issued("installer")

ReportsUnchanged == pc = "done" => outcome.exit = "exit_json" /\ outcome.changed = "false"

HasRecognizedExtension(s) == endswith(s, PkgSuffix) \/ endswith(s, DmgSuffix)

\* The last path segment has no "." in it.
HasNoExtension(s) == rfind(s, ".") < rfind(s, "/")

(***************************************************************************)
(* C1: every run that downloaded a temp file or mounted a container has,   *)
(* when it terminates on whatever path, removed the file and detached the  *)
(* container.                                                              *)
(***************************************************************************)
C1_CleanupOnEveryExit ==
    (pc = "done" /\ outcome.exit \in {"exit_json", "fail_json"}) =>
        tempFiles = {} /\ attached = {}

(***************************************************************************)
(* C2: with upgrade=false and the identity present in the registry, the    *)
(* installer is never issued, the run does not fail and it reports         *)
(* changed=false, whatever the versions and whatever force is.             *)
(***************************************************************************)
C2_UpgradeDeclined ==
    (IsPresent /\ ~params.upgrade) =>
        /\ install_result = 2
        /\ ~Issued("installer")
        /\ ~outcome.failed
        /\ ReportsUnchanged

C2_Witness ==
    /\ pc = "done"
    /\ IsPresent
    /\ ~params.upgrade
    /\ params.force
    /\ outcome.changed = "false"
    /\ \E v \in Versions :
          /\ re_search_version(registry[metadata.id]).val = v
          /\ IsPep440(metadata.version)
          /\ VersionLT(v, metadata.version)

(***************************************************************************)
(* C3: present, upgrade=true, force=false and installed >= declared under  *)
(* the comparator: the installer is not issued and the run ends with       *)
(* changed=false (install() returned 1).                                   *)
(***************************************************************************)
C3_AlreadySatisfied ==
    (/\ IsPresent
     /\ params.upgrade
     /\ ~params.force
     /\ Comparable
     /\ VersionGE(installed_ver, metadata.version)) =>
        /\ install_result = 1
        /\ ~Issued("installer")
        /\ ~outcome.failed
        /\ ReportsUnchanged

C3_Witness ==
    /\ pc = "done"
    /\ IsPresent
    /\ params.upgrade
    /\ ~params.force
    /\ Comparable
    /\ installed_ver # metadata.version
    /\ Release(installed_ver) = Release(metadata.version)
    /\ outcome.changed = "false"

C5_AbsentProceeds ==
    (Inspected /\ metadata.id # "" /\ metadata.id \notin ListedIds) =>
        /\ Proceeded
        /\ ~Issued("pkgutil --pkg-info")
        /\ installed_ver = None
        /\ (pc = "done" /\ installer_rc = 0 =>
               outcome.exit = "exit_json" /\ outcome.changed = "true")

C5_Witness ==
    /\ pc = "done"
    /\ metadata.id # ""
    /\ metadata.id \notin ListedIds
    /\ ~params.upgrade
    /\ ~params.force
    /\ installer_rc = 0
    /\ outcome.changed = "true"

(***************************************************************************)
(* C6: present, upgrade=true and installed strictly lower than declared    *)
(* under the comparator: the installer is issued, force or not.            *)
(***************************************************************************)
C6_UpgradeProceeds ==
    (/\ IsPresent
     /\ params.upgrade
     /\ Comparable
     /\ VersionLT(installed_ver, metadata.version)) =>
        /\ Proceeded
        /\ install_result \in {Unset, 0}

C6_Witness ==
    /\ Issued("installer")
    /\ IsPresent
    /\ params.upgrade
    /\ ~params.force
    /\ Comparable
    /\ VersionLT(installed_ver, metadata.version)

(***************************************************************************)
(* C7: the result says changed=true only if the installer command was      *)
(* issued in the run and exited zero; a run that skips the installer, or   *)
(* whose installer exits non-zero, does not report changed=true.           *)
(***************************************************************************)
C7_ChangedOnlyAfterInstall ==
    (result.changed \/ outcome.changed = "true") =>
        Issued("installer") /\ installer_rc = 0

C7_Witness ==
    /\ pc = "done"
    /\ outcome.changed = "true"
    /\ Issued("installer")
    /\ installer_rc = 0

(***************************************************************************)
(* C8: an installer command that exits non-zero ends the run as a failure, *)
(* never as a successful result.                                           *)
(***************************************************************************)
C8_InstallerFailureFailsRun ==
    (pc = "done" /\ Issued("installer") /\ installer_rc # 0) => outcome.failed

(***************************************************************************)
(* C9: a source, local or remote, without a recognized extension and with  *)
(* no type override fails with UnresolvableType before any attach,         *)
(* metadata or installer command.                                          *)
(***************************************************************************)
C9_UnresolvableType ==
    (/\ pc # "start"
     /\ params.type = NoneStr
     /\ ~HasRecognizedExtension(params.source)) =>
        /\ outcome.err = "UnresolvableType"
        /\ ~Issued("hdiutil attach")
        /\ ~Issued("tar")
        /\ ~Issued("installer")

(***************************************************************************)
(* C10: with an explicit type override and a source without extension,     *)
(* remote or local, the run does not fail with UnresolvableType.           *)
(***************************************************************************)
C10_OverrideSkipsExtension ==
    (params.type # NoneStr /\ HasNoExtension(params.source)) =>
        outcome.err # "UnresolvableType"

(***************************************************************************)
(* C11: idempotence. A request with force=false is run again on a machine  *)
(* that has the package installed at the declared version: the second run  *)
(* issues no installer command and reports changed=false, with upgrade     *)
(* true or false.                                                          *)
(***************************************************************************)
SecondRunOfSatisfied ==
    /\ run = 2
    /\ ~params.force
    /\ metadata.id # NoneStr
    /\ metadata = prev_metadata
    /\ InstalledAtDeclared(machine0, metadata)

C11_Idempotent ==
    SecondRunOfSatisfied =>
        /\ ~Issued("installer")
        /\ registry = machine0
        /\ ~result.changed
        /\ outcome.changed # "true"
        /\ (pc = "done" /\ outcome.exit = "exit_json" => outcome.changed = "false")

C11_Witness ==
    /\ SecondRunOfSatisfied
    /\ params.upgrade
    /\ pc = "done"
    /\ install_result = 1
    /\ outcome.exit = "exit_json"
    /\ outcome.changed = "false"

(***************************************************************************)
(* C12: a remote source answered with a status that is not success fails   *)
(* with FetchError, leaves no temporary file on disk and issues neither an *)
(* attach nor an installer command.                                        *)
(***************************************************************************)
C12_FetchError ==
    (url /\ info_status \notin {Unset, 200}) =>
        /\ pc = "done"
        /\ outcome.exit = "fail_json"
        /\ outcome.err = "FetchError"
        /\ tempFiles = {}
        /\ ~Issued("hdiutil attach")
        /\ ~Issued("installer")

C12_Witness ==
    /\ params.source = RemotePkg
    /\ info_status = 404
    /\ pc = "done"
    /\ outcome.err = "FetchError"
    /\ tempFiles = {}

(***************************************************************************)
(* C13: with an identity and a version override the metadata is exactly    *)
(* that pair, the archive is never inspected (no tar command) and neither  *)
(* MissingPackageInfo nor MissingVersion is raised.                        *)
(***************************************************************************)
OverrideSupplied == params.id \notin {NoneStr, ""} /\ params.ver # None

C13_OverrideIsMetadata ==
    OverrideSupplied =>
        /\ ~Issued("tar")
        /\ outcome.err \notin {"MissingPackageInfo", "MissingVersion"}
        /\ (pc \in {"inspect", "lookup", "installer", "cleanup", "remove", "report"} =>
               metadata = [version |-> params.ver, id |-> params.id])
        /\ metadata \in {[version |-> None, id |-> NoneStr],
                         [version |-> params.ver, id |-> params.id]}

C13_Witness ==
    /\ OverrideSupplied
    /\ pc = "done"
    /\ metadata = [version |-> params.ver, id |-> params.id]
    /\ Issued("installer")
    /\ outcome.changed = "true"

(***************************************************************************)
(* C14: the package installed from a container is the first file ending in *)
(* .pkg in directory-walk order over the whole tree, also when several     *)
(* directories hold one.                                                   *)
(***************************************************************************)
RECURSIVE FirstInWalk(_)
FirstInWalk(t) ==
    IF t = <<>> THEN None
    ELSE IF FirstPkg(Head(t).files) # None
         THEN join(Head(t).base, FirstPkg(Head(t).files))
         ELSE FirstInWalk(Tail(t))

C14_FirstPkgInWalkOrder ==
    (tree # <<>> /\ pkg_path # None) => pkg_path = FirstInWalk(tree)

(***************************************************************************)
(* C15: present, upgrade=true and a registry lookup without a "version: "  *)
(* line: the installed version stays unset, the run does not crash and the *)
(* installer is issued.                                                    *)
(***************************************************************************)
LookupWithoutVersion ==
    /\ IsPresent
    /\ params.upgrade
    /\ Issued("pkgutil --pkg-info")
    /\ metadata.id \in DOMAIN machine0
    /\ \A i \in 1..Len(machine0[metadata.id]) : machine0[metadata.id][i].key # "version"

C15_LookupGapProceeds ==
    LookupWithoutVersion =>
        /\ outcome.exit # "exception"
        /\ installed_ver = None
        /\ Proceeded

(***************************************************************************)
(* C16: a container was attached but the listing has no record for its     *)
(* path, or that record has no entity with a mount point: the run fails    *)
(* with MountResolutionError, a reported failure with a message, before    *)
(* any metadata extraction or installer command.                           *)
(***************************************************************************)
NoMountPointListed ==
    /\ Issued("hdiutil info")
    /\ \A i \in 1..Len(plist) :
          plist[i].image_path = path =>
              \A k \in 1..Len(plist[i].system_entities) :
                  plist[i].system_entities[k].mount_point = None

C16_MountResolutionError ==
    NoMountPointListed =>
        /\ pc = "done"
        /\ outcome.exit = "fail_json"
        /\ outcome.err = "MountResolutionError"
        /\ ~Issued("tar")
        /\ ~Issued("installer")

(***************************************************************************)
(* C17: the stages run in the order Resolver, Unwrapper, Metadata          *)
(* Extractor, Inspector, Reconciliation, Invoker, Cleanup: the installer   *)
(* is never issued before the metadata is there and the registry query has *)
(* returned, and neither the detach nor the deletion of the temp file      *)
(* happens before install() has returned.                                  *)
(***************************************************************************)
Rank(c) ==
    CASE c = "fetch_url" -> 1
      [] c = "hdiutil attach" -> 2
      [] c = "hdiutil info" -> 3
      [] c = "tar" -> 4
      [] c = "pkgutil --pkgs" -> 5
      [] c = "pkgutil --pkg-info" -> 6
      [] c = "installer" -> 7
      [] c = "hdiutil detach" -> 8
      [] c = "os.remove" -> 9

C17_StageOrder ==
    /\ \A i, j \in 1..Len(cmds) : i < j => Rank(cmds[i]) < Rank(cmds[j])
    /\ Issued("installer") => metadata.id # NoneStr /\ Inspected
    /\ (Issued("hdiutil detach") \/ Issued("os.remove")) =>
          /\ install_result \in {0, 1, 2}
          /\ pc \in {"remove", "report", "done"}
    /\ pc \in {"remove", "report"} => install_result \in {0, 1, 2}

C17_Witness ==
    /\ pc = "done"
    /\ cmds = <<"fetch_url", "hdiutil attach", "hdiutil info", "tar", "pkgutil --pkgs",
                "pkgutil --pkg-info", "installer", "hdiutil detach", "os.remove">>

(***************************************************************************)
(* C18: when the installer exits non-zero the message of the run is the    *)
(* command's stderr stream, not its standard output.                       *)
(***************************************************************************)
C18_FailureMessageIsStderr ==
    (pc = "done" /\ Issued("installer") /\ installer_rc # 0) =>
        outcome.msg = "installer.stderr"

(***************************************************************************)
(* C19: on a run that reaches the final report, detach was issued iff      *)
(* attach was issued earlier in the run (source ends in .dmg or type=dmg), *)
(* and it names the mount point resolved for the container; a run with a   *)
(* non-container source issues neither.                                    *)
(***************************************************************************)
FinalReport == pc = "done" /\ outcome.exit = "exit_json" /\ outcome.changed # "absent"

ContainerSource == params.type = "dmg" \/ endswith(params.source, DmgSuffix)

Before(a, b) == \E i, j \in 1..Len(cmds) : i < j /\ cmds[i] = a /\ cmds[j] = b

C19_DetachIffAttach ==
    /\ ~ContainerSource => ~Issued("hdiutil attach") /\ ~Issued("hdiutil detach")
    /\ FinalReport =>
          /\ Issued("hdiutil attach") <=> ContainerSource
          /\ Issued("hdiutil detach") <=> Issued("hdiutil attach")
          /\ Issued("hdiutil detach") =>
                /\ Before("hdiutil attach", "hdiutil detach")
                /\ detach_arg # None
                /\ \E i \in 1..Len(plist) :
                      /\ plist[i].image_path = path
                      /\ \E k \in 1..Len(plist[i].system_entities) :
                            plist[i].system_entities[k].mount_point = detach_arg
                /\ attached = {}

C19_Witness ==
    /\ FinalReport
    /\ params.source = LocalDmg
    /\ Issued("hdiutil detach")
    /\ detach_arg = MountA
    /\ outcome.changed = "true"

(***************************************************************************)
(* C20: the module declares check-mode support: a run in check mode issues *)
(* no installer and no attach command and leaves the registry as it was.   *)
(***************************************************************************)
C20_CheckModeMutatesNothing ==
    check_mode =>
        /\ ~Issued("installer")
        /\ ~Issued("hdiutil attach")
        /\ registry = machine0

====
